---- MODULE Spec2Model ----
(***************************************************************************)
(* Model of the Trivia backend (backend/flaskr/__init__.py): the Question  *)
(* and Category tables and the six request handlers of create_app.  Every  *)
(* handler is one atomic step: it reads the request, queries the store,    *)
(* possibly changes it, and leaves the HTTP response in `response`.        *)
(***************************************************************************)
EXTENDS Integers, Sequences, FiniteSets

VARIABLES questions, nextId, categories, request, response

vars == <<questions, nextId, categories, request, response>>

(* ------------------------------ bounds --------------------------------- *)

\* Number of Question rows seeded into a non-empty store.
MaxSeed == 10

\* Number of questions created through POST /questions in one behaviour.
MaxCreated == 2

(* ------------------------- program constants --------------------------- *)

QUESTIONS_PER_PAGE == 10

(* ------------------------------- texts --------------------------------- *)
\* Texts are sequences of characters, so that ILIKE can be computed.

Who == <<"W", "h", "o">>
How == <<"H", "O", "w">>
Why == <<"w", "h", "y">>
Ans == <<"a">>

Texts == <<Who, How, Why>>

\* Search terms: plain ones, one matching nothing, and the two LIKE wildcards.
SearchTerms == { <<"h">>, <<"w", "H">>, <<"z">>, <<"_">>, <<"%">> }

Lower(c) ==
  CASE c = "W" -> "w"
    [] c = "H" -> "h"
    [] c = "O" -> "o"
    [] OTHER -> c

Min(a, b) == IF a < b THEN a ELSE b
Max(a, b) == IF a > b THEN a ELSE b

(* ------------------------------ the store ------------------------------ *)

\* The Category table, seeded externally and never written by the app.
SeedCategories == { [id |-> 1, type |-> "Science"], [id |-> 2, type |-> "Art"] }

\* The seeded Question rows 1..n: most of them in category 1.
SeedQuestion(i) ==
  [id |-> i, question |-> Texts[(i % 3) + 1], answer |-> Ans,
   category |-> IF i % 7 = 0 THEN 2 ELSE 1, difficulty |-> (i % 3) + 1]

SeedQuestions(n) == { SeedQuestion(i) : i \in 1..n }

Ids(rows) == { q.id : q \in rows }

\* Question.format() / Category.format(): the flat object of the attributes.
format(q) ==
  [id |-> q.id, question |-> q.question, answer |-> q.answer,
   category |-> q.category, difficulty |-> q.difficulty]

\* Question.insert(): a new row with the next store-assigned id.
insert(rows, id, question, answer, category, difficulty) ==
  rows \cup { [id |-> id, question |-> question, answer |-> answer,
               category |-> category, difficulty |-> difficulty] }

\* Question.delete(): the row leaves the table.
delete(rows, q) == rows \ {q}

\* Mutant of order_by_id: the rows in descending id.
RECURSIVE order_by_id_desc(_)
order_by_id_desc(rows) ==
  IF rows = {} THEN <<>>
  ELSE LET q == CHOOSE r \in rows : \A o \in rows : o.id <= r.id
       IN  <<q>> \o order_by_id_desc(rows \ {q})

\* A row put at its place in a list that is in ascending id.
RECURSIVE insert_by_id(_, _)
insert_by_id(q, lst) ==
  IF lst = <<>> THEN <<q>>
  ELSE IF q.id <= Head(lst).id THEN <<q>> \o lst
       ELSE <<Head(lst)>> \o insert_by_id(q, Tail(lst))

\* query.order_by(Question.id).all(): the rows as a list in ascending id.
RECURSIVE order_by_id(_)
order_by_id(rows) ==
  IF rows = {} THEN <<>>
  ELSE LET q == CHOOSE r \in rows : TRUE
       IN  insert_by_id(q, order_by_id(rows \ {q}))

\* query.filter_by(category=c)
filter_by_category(rows, c) == { q \in rows : q.category = c }

\* SQL (I)LIKE: % matches any run of characters, _ any single character,
\* every other character matches itself, case-insensitively.
RECURSIVE LikeMatch(_, _)
LikeMatch(p, s) ==
  IF p = <<>> THEN s = <<>>
  ELSE IF Head(p) = "%"
       THEN LikeMatch(Tail(p), s) \/ (s # <<>> /\ LikeMatch(p, Tail(s)))
       ELSE /\ s # <<>>
            /\ (Head(p) = "_" \/ Lower(Head(p)) = Lower(Head(s)))
            /\ LikeMatch(Tail(p), Tail(s))

\* Question.question.ilike(f"%{searchTerm}%")
ilike(text, searchTerm) == LikeMatch(<<"%">> \o searchTerm \o <<"%">>, text)

(* --------------------------- list operations --------------------------- *)

\* [question.format() for question in query]
RECURSIVE format_all(_)
format_all(query) ==
  IF query = <<>> THEN <<>> ELSE <<format(Head(query))>> \o format_all(Tail(query))

\* Python's index normalisation in a slice of a list of length n.
SliceIndex(i, n) == IF i < 0 THEN Max(i + n, 0) ELSE Min(i, n)

\* Python's lst[start:end]
Slice(lst, start, end) ==
  LET lo == SliceIndex(start, Len(lst))
      hi == SliceIndex(end, Len(lst))
  IN  IF lo >= hi THEN <<>> ELSE SubSeq(lst, lo + 1, hi)

\* Mutant of Window: the end of the window is one position too far.
Window_wide(page) ==
  [start |-> (page - 1) * QUESTIONS_PER_PAGE,
   end   |-> (page - 1) * QUESTIONS_PER_PAGE + QUESTIONS_PER_PAGE + 1]

\* start = (page - 1) * QUESTIONS_PER_PAGE; end = start + QUESTIONS_PER_PAGE
Window(page) ==
  [start |-> (page - 1) * QUESTIONS_PER_PAGE,
   end   |-> (page - 1) * QUESTIONS_PER_PAGE + QUESTIONS_PER_PAGE]

(* ------------------------------ responses ------------------------------ *)
\* A response is its status and the JSON fields the handlers set.  A field
\* the handler does not send keeps its blank value; the null question of
\* /quizzes is the empty set, a chosen question q is {q}.

Blank ==
  [status |-> 200, questions |-> <<>>, total_questions |-> 0,
   question |-> {}, deleted |-> 0, categories |-> <<>>]

\* abort(code), answered by the error handler of that code.
abort(code) == [Blank EXCEPT !.status = code]

\* try: ... except: abort(code) -- the bare except also catches the
\* HTTPException an abort() inside the try block raises.
TryExcept(outcome, code) ==
  IF outcome.response.status # 200
  THEN [outcome EXCEPT !.response = abort(code)]
  ELSE outcome

\* What a handler leaves behind: the response and the Question table.
Outcome(resp, rows) == [response |-> resp, questions |-> rows]

(* ------------------------------ handlers ------------------------------- *)

\* format_categories(): the mapping from category id to type.
format_categories(cats) ==
  [i \in { c.id : c \in cats } |-> (CHOOSE c \in cats : c.id = i).type]

\* GET /categories
get_categories(cats) == [Blank EXCEPT !.categories = format_categories(cats)]

\* Mutant of get_questions: an empty window is answered with success.
get_questions_no_404(rows, cats, page) ==
  LET w == Window(page)
      all_questions == format_all(order_by_id(rows))
  IN  [Blank EXCEPT !.questions = Slice(all_questions, w.start, w.end),
                    !.total_questions = Len(all_questions),
                    !.categories = format_categories(cats)]

\* GET /questions?page=N
get_questions(rows, cats, page) ==
  LET w == Window(page)
      query == order_by_id(rows)
      all_questions == format_all(query)
      current_questions == Slice(all_questions, w.start, w.end)
  IN  IF Len(current_questions) = 0
      THEN abort(404)
      ELSE [Blank EXCEPT !.questions = current_questions,
                         !.total_questions = Len(all_questions),
                         !.categories = format_categories(cats)]

\* DELETE /questions/<id>
delete_question(rows, id) ==
  TryExcept(
    LET found == { q \in rows : q.id = id }
    IN  IF found = {}
        THEN Outcome(abort(404), rows)
        ELSE Outcome([Blank EXCEPT !.deleted = id],
                     delete(rows, CHOOSE q \in found : TRUE)),
    422)

\* The search branch of POST /questions.
search_questions(rows, searchTerm, page) ==
  LET query == order_by_id({ q \in rows : ilike(q.question, searchTerm) })
      w == Window(page)
      found == format_all(query)
      current_questions == Slice(found, w.start, w.end)
  IN  [Blank EXCEPT !.questions = current_questions,
                    !.total_questions = Len(found)]

\* Mutant of create_question: the row is inserted before the required
\* fields are checked.
create_question_insert_first(rows, id, body, page) ==
  IF ~body.json
  THEN Outcome(abort(500), rows)
  ELSE TryExcept(
         IF body.searchTerm # <<>>
         THEN Outcome(search_questions(rows, body.searchTerm, page), rows)
         ELSE LET inserted == insert(rows, id, body.question, body.answer,
                                     body.category, body.difficulty)
              IN  IF \/ body.question = <<>>
                     \/ body.answer = <<>>
                     \/ body.category = 0
                     \/ body.difficulty = 0
                  THEN Outcome(abort(400), inserted)
                  ELSE Outcome(Blank, inserted),
         422)

\* POST /questions.  body.json is FALSE when the JSON body is not an object
\* (body.get then fails before the try block); a missing key and an empty
\* or zero value are both falsy: <<>> for the texts, 0 for the numbers.
create_question(rows, id, body, page) ==
  IF ~body.json
  THEN Outcome(abort(500), rows)
  ELSE TryExcept(
         IF body.searchTerm # <<>>
         THEN Outcome(search_questions(rows, body.searchTerm, page), rows)
         ELSE IF \/ body.question = <<>>
                 \/ body.answer = <<>>
                 \/ body.category = 0
                 \/ body.difficulty = 0
              THEN Outcome(abort(400), rows)
              ELSE Outcome(Blank,
                           insert(rows, id, body.question, body.answer,
                                  body.category, body.difficulty)),
         422)

\* Mutant of get_by_category: the list is cut to the first page.
get_by_category_paged(rows, category_id) ==
  LET found == format_all(order_by_id(filter_by_category(rows, category_id)))
  IN  [Blank EXCEPT !.questions = Slice(found, 0, QUESTIONS_PER_PAGE),
                    !.total_questions = Len(found)]

\* GET /categories/<category_id>/questions
get_by_category(rows, category_id) ==
  LET query == order_by_id(filter_by_category(rows, category_id))
      found == format_all(query)
  IN  [Blank EXCEPT !.questions = found, !.total_questions = Len(found)]

\* x in lst
InList(x, lst) == \E i \in 1..Len(lst) : lst[i] = x

\* lst.remove(x): drops the first element equal to x.
RECURSIVE list_remove(_, _)
list_remove(lst, x) ==
  IF lst = <<>> THEN <<>>
  ELSE IF Head(lst) = x THEN Tail(lst)
       ELSE <<Head(lst)>> \o list_remove(Tail(lst), x)

\* Mutant of remove_past: the loop runs over the list it removes from, so
\* the element after a removed one is skipped.
RECURSIVE remove_past_at(_, _, _)
remove_past_at(i, lst, past_questions) ==
  IF i > Len(lst) THEN lst
  ELSE remove_past_at(i + 1,
                      IF InList(lst[i].id, past_questions)
                      THEN list_remove(lst, lst[i])
                      ELSE lst,
                      past_questions)

remove_past_live(copy, lst, past_questions) == remove_past_at(1, lst, past_questions)

\* for question in list(questions):
\*     if question["id"] in past_questions: questions.remove(question)
RECURSIVE remove_past(_, _, _)
remove_past(copy, lst, past_questions) ==
  IF copy = <<>> THEN lst
  ELSE remove_past(Tail(copy),
                   IF InList(Head(copy).id, past_questions)
                   THEN list_remove(lst, Head(copy))
                   ELSE lst,
                   past_questions)

\* The try block of POST /quizzes: the set of possible results, one per
\* draw of random.choice.  body.json is FALSE when the JSON body is not an
\* object; quiz_category.present is FALSE for null or {}, has_id is FALSE
\* for an object without the key "id" (category["id"] raises KeyError, an
\* exception left alone would be answered 500); previous_questions <<>> is
\* null or [].
quiz_try(rows, body) ==
  IF ~body.json \/ (body.quiz_category.present /\ ~body.quiz_category.has_id)
  THEN { abort(500) }
  ELSE LET category == body.quiz_category
           query == IF category.present /\ category.id # 0
                    THEN order_by_id(filter_by_category(rows, category.id))
                    ELSE order_by_id(rows)
           fetched == format_all(query)
       IN  IF Len(fetched) = 0
           THEN { abort(404) }
           ELSE LET remaining ==
                      IF body.previous_questions # <<>>
                      THEN remove_past(fetched, fetched, body.previous_questions)
                      ELSE fetched
                IN  IF Len(remaining) # 0
                    THEN { [Blank EXCEPT !.question = {remaining[i]}] :
                             i \in 1..Len(remaining) }
                    ELSE { Blank }

\* POST /quizzes: try: ... except: abort(400)
get_quizzes(rows, body) ==
  { TryExcept(Outcome(r, rows), 400).response : r \in quiz_try(rows, body) }

(* ------------------------------- inputs -------------------------------- *)

\* Largest id the store assigns within the bounds.
MaxId == MaxSeed + MaxCreated

Pages == -1..3

SearchPages == 1..2

\* A seeded id, a created id and an id the store never assigns.
DeleteIds == { 1, MaxSeed + 1, MaxId + 1 }

CategoryIds == 1..3

NewQuestion(question, answer, category, difficulty) ==
  [json |-> TRUE, question |-> question, answer |-> answer,
   category |-> category, difficulty |-> difficulty, searchTerm |-> <<>>]

\* Complete bodies, one of them with a category no Category row has.
CreateBodies == { NewQuestion(Who, Ans, 1, 1), NewQuestion(How, Ans, 3, 2) }

\* Bodies with one required field missing or falsy.
IncompleteBodies ==
  { NewQuestion(<<>>, Ans, 1, 1), NewQuestion(Who, <<>>, 1, 1),
    NewQuestion(Who, Ans, 0, 1), NewQuestion(Who, Ans, 1, 0),
    NewQuestion(<<>>, <<>>, 0, 0) }

SearchBodies ==
  { [NewQuestion(<<>>, <<>>, 0, 0) EXCEPT !.searchTerm = t] : t \in SearchTerms }

NoJsonBody == [NewQuestion(<<>>, <<>>, 0, 0) EXCEPT !.json = FALSE]

PostBodies == CreateBodies \cup IncompleteBodies \cup SearchBodies \cup {NoJsonBody}

PreviousQuestions == { <<>>, <<2, 1>>, [i \in 1..MaxId |-> i] }

QuizCategories ==
  { [present |-> FALSE, has_id |-> FALSE, id |-> 0],
    [present |-> TRUE, has_id |-> FALSE, id |-> 0] }
  \cup { [present |-> TRUE, has_id |-> TRUE, id |-> c] : c \in {0, 1, 3} }

QuizBodies ==
  { [json |-> TRUE, previous_questions |-> p, quiz_category |-> c] :
      p \in PreviousQuestions, c \in QuizCategories }
  \cup { [json |-> FALSE, previous_questions |-> <<>>,
          quiz_category |-> [present |-> FALSE, has_id |-> FALSE, id |-> 0]] }

(* ---------------------------- the state machine ------------------------ *)

\* The store is empty or holds the seeded rows; the id sequence stands past
\* the seeded ids either way.
Init ==
  /\ \E n \in {0, MaxSeed} : questions = SeedQuestions(n)
  /\ nextId = MaxSeed + 1
  /\ categories = SeedCategories
  /\ request = [op |-> "none"]
  /\ response = Blank

GetCategories ==
  /\ request' = [op |-> "get_categories"]
  /\ response' = get_categories(categories)
  /\ UNCHANGED <<questions, nextId, categories>>

GetQuestions ==
  \E page \in Pages :
    /\ request' = [op |-> "get_questions", page |-> page]
    /\ response' = get_questions(questions, categories, page)
    /\ UNCHANGED <<questions, nextId, categories>>

DeleteQuestion ==
  \E id \in DeleteIds :
    LET outcome == delete_question(questions, id)
    IN  /\ request' = [op |-> "delete_question", id |-> id]
        /\ response' = outcome.response
        /\ questions' = outcome.questions
        /\ UNCHANGED <<nextId, categories>>

\* The store assigns nextId to an inserted row and moves the sequence on.
CreateQuestion ==
  \E body \in PostBodies, page \in SearchPages :
    LET outcome == create_question(questions, nextId, body, page)
    IN  /\ outcome.questions # questions => nextId < MaxId + 1
        /\ body.searchTerm = <<>> => page = 1
        /\ request' = [op |-> "create_question", body |-> body, page |-> page]
        /\ response' = outcome.response
        /\ questions' = outcome.questions
        /\ nextId' = IF outcome.questions # questions THEN nextId + 1 ELSE nextId
        /\ UNCHANGED categories

GetByCategory ==
  \E category_id \in CategoryIds :
    /\ request' = [op |-> "get_by_category", category_id |-> category_id]
    /\ response' = get_by_category(questions, category_id)
    /\ UNCHANGED <<questions, nextId, categories>>

GetQuizzes ==
  \E body \in QuizBodies :
    \E r \in get_quizzes(questions, body) :
      /\ request' = [op |-> "get_quizzes", body |-> body]
      /\ response' = r
      /\ UNCHANGED <<questions, nextId, categories>>

Next ==
  \/ GetCategories
  \/ GetQuestions
  \/ DeleteQuestion
  \/ CreateQuestion
  \/ GetByCategory
  \/ GetQuizzes

Spec == Init /\ [][Next]_vars

(* ------------------------------- claims -------------------------------- *)

\* The rows in ascending id, by rank.
IdAscending(rows) ==
  [i \in 1..Cardinality(rows) |->
     CHOOSE q \in rows : Cardinality({ r \in rows : r.id < q.id }) = i - 1]

\* The positions lo+1 .. hi of a list, cut at its end.
Positions(lst, lo, hi) ==
  [i \in 1..(Min(hi, Len(lst)) - Min(lo, Len(lst))) |-> lst[lo + i]]

\* term occurs in text, letter case ignored.
Contains(text, term) ==
  \E k \in 0..(Len(text) - Len(term)) :
    \A i \in 1..Len(term) : Lower(text[k + i]) = Lower(term[i])

IsCreate(req) ==
  /\ req.op = "create_question"
  /\ req.body.json
  /\ req.body.searchTerm = <<>>

IsSearch(req) ==
  /\ req.op = "create_question"
  /\ req.body.json
  /\ req.body.searchTerm # <<>>

\* C1: delete_question(id) for an id that is not in the store is answered
\* 404, also right after a successful delete of the same id.
C1_DeleteMissingIs404 ==
  [][(request'.op = "delete_question" /\ request'.id \notin Ids(questions))
       => response'.status = 404]_vars

\* C2: in create mode a request with a missing or falsy required field is
\* answered 400.
C2_MissingFieldIs400 ==
  (/\ IsCreate(request)
   /\ \/ request.body.question = <<>>
      \/ request.body.answer = <<>>
      \/ request.body.category = 0
      \/ request.body.difficulty = 0)
  => response.status = 400

\* The questions next_quiz_question fetches for a well-formed body.
QuizWellFormed(body) ==
  body.json /\ (body.quiz_category.present => body.quiz_category.has_id)

QuizFetched(rows, body) ==
  IF body.quiz_category.present /\ body.quiz_category.id # 0
  THEN { q \in rows : q.category = body.quiz_category.id }
  ELSE rows

QuizUnseen(rows, body) ==
  { q \in QuizFetched(rows, body) :
      \A i \in 1..Len(body.previous_questions) : body.previous_questions[i] # q.id }

\* C3: next_quiz_question answers 404 whenever the fetched set is empty.
C3_EmptyFetchIs404 ==
  (/\ request.op = "get_quizzes"
   /\ QuizWellFormed(request.body)
   /\ QuizFetched(questions, request.body) = {})
  => response.status = 404

\* C4: a successful next_quiz_question returns no previously seen question:
\* null when every fetched question was seen, else one of the fetched unseen
\* questions; a non-empty fetched set always gives success.
C4_QuizNeverRepeats ==
  (request.op = "get_quizzes" /\ QuizWellFormed(request.body))
  => LET fetched == QuizFetched(questions, request.body)
         unseen == QuizUnseen(questions, request.body)
     IN  /\ fetched # {} => response.status = 200
         /\ response.status = 200 =>
              /\ response.question \subseteq unseen
              /\ Cardinality(response.question) = IF unseen = {} THEN 0 ELSE 1

C4_Witness ==
  /\ request.op = "get_quizzes"
  /\ response.status = 200
  /\ response.question = {}
  /\ request.body.quiz_category.present
  /\ request.body.quiz_category.id = 1
  /\ Cardinality(questions) > Cardinality(QuizFetched(questions, request.body))

C4_WitnessChosen ==
  /\ request.op = "get_quizzes"
  /\ response.status = 200
  /\ response.question # {}
  /\ request.body.previous_questions # <<>>
  /\ QuizUnseen(questions, request.body) # QuizFetched(questions, request.body)

\* Every page of list_questions from `page` on, until the first 404.
RECURSIVE ListAllFrom(_, _, _)
ListAllFrom(rows, cats, page) ==
  LET r == get_questions(rows, cats, page)
  IN  IF r.status # 200 THEN <<>>
      ELSE r.questions \o ListAllFrom(rows, cats, page + 1)

\* C5: after a successful create, walking every page of list_questions
\* yields the listing of before followed by the new question, which has the
\* largest id and ends the last non-empty page; total_questions is one more
\* than before.
C5_CreatedIsLast ==
  [][(IsCreate(request') /\ response'.status = 200)
       => LET before == ListAllFrom(questions, categories, 1)
              after == ListAllFrom(questions', categories', 1)
              new == after[Len(after)]
              first_before == get_questions(questions, categories, 1)
              total_before == IF first_before.status = 200
                              THEN first_before.total_questions ELSE 0
          IN  /\ Len(after) = Len(before) + 1
              /\ SubSeq(after, 1, Len(before)) = before
              /\ new.question = request'.body.question
              /\ new.answer = request'.body.answer
              /\ new.category = request'.body.category
              /\ new.difficulty = request'.body.difficulty
              /\ \A i \in 1..Len(before) : before[i].id < new.id
              /\ \E p \in 1..Len(after) :
                   LET last == get_questions(questions', categories', p)
                   IN  /\ last.status = 200
                       /\ get_questions(questions', categories', p + 1).status = 404
                       /\ last.questions[Len(last.questions)] = new
                       /\ last.total_questions = total_before + 1]_vars

C5_Witness ==
  /\ IsCreate(request)
  /\ response.status = 200
  /\ Cardinality(questions) > QUESTIONS_PER_PAGE
  /\ Cardinality(questions) < nextId - 1

\* C6: a successful list_questions(page) returns at most 10 items, a
\* contiguous slice of the id-ascending list of all questions (for
\* page >= 1 the positions (page-1)*10 .. page*10 - 1 cut at the end), and
\* total_questions counts all stored questions.
C6_PageIsSlice ==
  (request.op = "get_questions" /\ response.status = 200)
  => LET all == IdAscending(questions)
         got == response.questions
     IN  /\ Len(got) <= 10
         /\ \E k \in 0..Len(all) : got = Positions(all, k, k + Len(got))
         /\ request.page >= 1 =>
              got = Positions(all, (request.page - 1) * 10, request.page * 10)
         /\ response.total_questions = Cardinality(questions)

C6_Witness ==
  /\ request.op = "get_questions"
  /\ response.status = 200
  /\ request.page = 2
  /\ Len(response.questions) < response.total_questions

C6_WitnessNegativePage ==
  /\ request.op = "get_questions"
  /\ response.status = 200
  /\ request.page < 1

\* C7: for page >= 1, list_questions(page) is answered 404 exactly when
\* (page-1)*10 >= N, and otherwise succeeds with a non-empty list.
C7_NotFoundIffEmptyWindow ==
  (request.op = "get_questions" /\ request.page >= 1)
  => IF (request.page - 1) * 10 >= Cardinality(questions)
     THEN response.status = 404
     ELSE response.status = 200 /\ Len(response.questions) > 0

C7_Witness ==
  /\ request.op = "get_questions"
  /\ request.page = 2
  /\ response.status = 404
  /\ Cardinality(questions) = 10

C7_WitnessEmptyStore ==
  /\ request.op = "get_questions"
  /\ request.page = 1
  /\ response.status = 404

\* C8: search mode never answers 404: it returns the page window of the
\* id-ascending questions whose text contains the term, letter case
\* ignored, and total_questions is the number of all matches.
C8_SearchIsSubstringMatch ==
  IsSearch(request)
  => LET matches ==
           IdAscending({ q \in questions :
                           Contains(q.question, request.body.searchTerm) })
     IN  /\ response.status = 200
         /\ response.total_questions = Len(matches)
         /\ request.page >= 1 =>
              response.questions =
                Positions(matches, (request.page - 1) * 10, request.page * 10)

\* C9: list_by_category(c) returns exactly the stored questions of category
\* c in ascending id, unpaginated, with total_questions its length; a
\* created question is in the list of its category right after the create,
\* and in no list after the delete that reports its id.
C9_ByCategoryIsExact ==
  [][ /\ request'.op = "get_by_category" =>
          LET expected ==
                IdAscending({ q \in questions' :
                                q.category = request'.category_id })
          IN  /\ response'.status = 200
              /\ response'.questions = expected
              /\ response'.total_questions = Len(expected)
      /\ (IsCreate(request') /\ response'.status = 200) =>
          LET listed == get_by_category(questions', request'.body.category)
          IN  /\ listed.status = 200
              /\ \E i \in 1..Len(listed.questions) :
                   /\ listed.questions[i].id \notin Ids(questions)
                   /\ listed.questions[i].question = request'.body.question
                   /\ listed.questions[i].category = request'.body.category
              /\ listed.total_questions =
                   get_by_category(questions, request'.body.category).total_questions + 1
      /\ (request'.op = "delete_question" /\ response'.status = 200) =>
          /\ response'.deleted = request'.id
          /\ request'.id \in Ids(questions)
          /\ \A c \in CategoryIds :
               LET listed == get_by_category(questions', c)
               IN  \A i \in 1..Len(listed.questions) :
                     listed.questions[i].id # request'.id]_vars

C9_Witness ==
  /\ request.op = "get_by_category"
  /\ response.total_questions > QUESTIONS_PER_PAGE

C9_WitnessEmpty ==
  /\ request.op = "get_by_category"
  /\ response.total_questions = 0
  /\ questions # {}

\* C10: the stored questions change only by a successful create (one row
\* with a fresh id added) or a successful delete (the row of that id
\* removed); errors and the read requests change nothing, and the
\* categories never change.
C10_OnlyCreateAndDeleteWrite ==
  [][ /\ categories' = categories
      /\ response'.status # 200 => questions' = questions
      /\ (request'.op \in {"get_categories", "get_questions",
                           "get_by_category", "get_quizzes"}
          \/ IsSearch(request')) => questions' = questions
      /\ (IsCreate(request') /\ response'.status = 200) =>
           \E q \in questions' :
             /\ q.id \notin Ids(questions)
             /\ questions' = questions \cup {q}
      /\ (request'.op = "delete_question" /\ response'.status = 200) =>
           /\ request'.id \in Ids(questions)
           /\ questions' = { q \in questions : q.id # request'.id }]_vars

C10_Witness ==
  /\ IsCreate(request)
  /\ response.status # 200
  /\ questions # {}

====
